---- MODULE Spec2Model ----
(***************************************************************************)
(* Model of the storefront's database and of the operations that change    *)
(* it: the stored procedures place_order_complete and verify_payment_slip  *)
(* (002_rpc_functions.sql), the tables and their constraints               *)
(* (001_initial_schema.sql), and the client code that calls them            *)
(* (orderStore.ts, CheckoutPage.tsx, PaymentSlipUploader.tsx,               *)
(* thunderClient.ts, StoreSettingsForm.tsx, OrderTable).                    *)
(*                                                                         *)
(* The database runs each RPC in its own READ COMMITTED transaction: a     *)
(* statement sees what was committed when it starts, SELECT ... FOR UPDATE *)
(* waits for and then holds the row's lock until the transaction (or the   *)
(* sub-transaction of a BEGIN ... EXCEPTION block) ends, and the rows a    *)
(* transaction wrote are visible to the others only after it commits.      *)
(* A transaction's uncommitted product rows are kept in txProducts.        *)
(***************************************************************************)
EXTENDS Integers, Sequences, FiniteSets, Bags, TLC

\* ---------------------------------------------------------------- bounds
MaxStock == 1
MaxItems == 2
MaxLogs == 2

NULL == "NULL"

\* ------------------------------------------------------------- the tables
Products == {"p1", "p2", "p3"}
Profiles == {"u1"}

\* the rows the products table starts with: p3 is not on sale
InitProducts ==
  [p \in Products |-> [stock |-> MaxStock, is_available |-> (p # "p3")]]

\* ------------------------------------------------------ inputs of the calls
\* An argument of a call is drawn when the procedure first reads it: no
\* statement before that depends on it, so the behaviours are those of a call
\* whose arguments were all fixed when it was issued.
Callers == {"c1", "c2"}
UserIds == Profiles \cup {"ux"}
Quantities == -1..MaxStock
UnitPrices == {1}
Prices == {-1, 5}
Fees == {-1, 0}
TransRefs == {"", "REF01"}

OrderItem == [product_id : Products, quantity : Quantities, unit_price : UnitPrices]

\* p_user_id, p_total_price, p_shipping_fee, p_trans_ref
ScalarArgs ==
  [p_user_id : UserIds, p_total_price : Prices, p_shipping_fee : Fees,
   p_trans_ref : TransRefs \cup {NULL}]

VARIABLES
  is_store_open,   \* store_settings.is_store_open of the single row
  products,        \* products: id -> [stock, is_available], committed
  orders,          \* orders: the sequence of rows, id = position
  order_items,     \* order_items: the sequence of rows
  activity_logs,   \* activity_logs: the bag of rows (ids and times left out)
  pc,              \* each place_order_complete call's position
  p_order_items,   \* the elements of p_order_items its FOR loop has read
  txProducts,      \* the product rows it locked and wrote, uncommitted
  ret,             \* what each caller's last call returned (none while in flight)
  cancel,          \* each cancelOrder run: position, order, items to restore
  verify,          \* each verify_payment_slip call: position, arguments, result
  uploader,        \* PaymentSlipUploader of an order: transRef, verificationResult
  flat_shipping_fee, \* store_settings.flat_shipping_fee of the single row
  cart,            \* cartStore.items of each caller's browser
  checkout,        \* each createOrder run: position, orderData, requests, result
  page,            \* CheckoutPage of each caller: storeSettings, shippingFee, ...
  store            \* orderStore.orders of the admin's and the cancellers' browsers

vars == <<is_store_open, products, orders, order_items, activity_logs,
          pc, p_order_items, txProducts, ret, cancel, verify, uploader,
          flat_shipping_fee, cart, checkout, page, store>>

\* the shipping fee of the settings row and the state of the browsers
pageVars == <<flat_shipping_fee, cart, checkout, page>>
appVars == <<pageVars, store>>

\* the state of the code that runs beside place_order_complete
clientVars == <<cancel, verify, uploader, appVars>>

dbVars == <<is_store_open, products, orders, order_items, activity_logs>>

NoTx == [p \in {} |-> 0]
NoRet == [kind |-> "none", order_id |-> 0, error |-> NULL]

Cancellers == {"k1", "k2"}
Verifiers == {"v1", "v2"}
NoCancel == [pc |-> "idle", order_id |-> 0, items |-> <<>>, restored |-> 0]
NoVerify == [pc |-> "idle", p_order_id |-> 0, p_trans_ref |-> NULL, ret |-> NoRet]
NoUploader == [o \in {} |-> 0]

\* the promise of createOrder: pending, or resolved to {success, orderId, error}
NoResult == [kind |-> "pending", success |-> FALSE, orderId |-> 0, error |-> NULL]

\* createOrder is not running; requests and rpcCalls count what its last run
\* sent, error is the orderStore's error field
NoCheckout ==
  [pc |-> "idle", user |-> NULL, shipping_method |-> "pickup", items |-> <<>>,
   shippingFee |-> 0, displayedFee |-> 0,
   requests |-> 0, rpcCalls |-> 0, error |-> NULL, result |-> NoResult]

\* storeSettings of CheckoutPage while it is null
NoStoreSettings ==
  [loaded |-> FALSE, flat_shipping_fee |-> 0, shipping_radius_km |-> 0,
   is_store_open |-> FALSE]

\* CheckoutPage as useState initialises it
NoPage ==
  [storeSettings |-> NoStoreSettings, shippingMethod |-> "delivery",
   shippingDistance |-> 0, shippingFee |-> 0]

\* the browsers that keep a list of orders in their orderStore
Stores == Cancellers \cup {"admin"}
NoOrders == [o \in {} |-> 0]
\* currentOrder: null
NoCurrentOrder == [id |-> 0, status |-> NULL]
\* the calls of updateOrderStatus a store may have started and not yet
\* seen return
Requests == {"r1", "r2"}
NoCall == [pc |-> "idle", orderId |-> 0, status |-> NULL, settled |-> "none"]

Init ==
  /\ is_store_open = TRUE
  /\ products = InitProducts
  /\ orders = <<>>
  /\ order_items = <<>>
  /\ activity_logs = EmptyBag
  /\ pc = [c \in Callers |-> "idle"]
  /\ p_order_items = [c \in Callers |-> <<>>]
  /\ txProducts = [c \in Callers |-> NoTx]
  /\ ret = [c \in Callers |-> NoRet]
  /\ cancel = [k \in Cancellers |-> NoCancel]
  /\ verify = [v \in Verifiers |-> NoVerify]
  /\ uploader = NoUploader
  /\ flat_shipping_fee = 0
  /\ cart = [c \in Callers |-> <<>>]
  /\ checkout = [c \in Callers |-> NoCheckout]
  /\ page = [c \in Callers |-> NoPage]
  /\ store = [s \in Stores |->
       [orders |-> NoOrders, selectedOrders |-> {}, error |-> NULL,
        currentOrder |-> NoCurrentOrder, isLoading |-> FALSE,
        calls |-> [r \in Requests |-> NoCall]]]

\* ------------------------------------------------------- helper operators
RECURSIVE SumQty(_, _)
\* the total quantity of product p in a sequence of items or order_items rows
SumQty(rows, p) ==
  IF rows = <<>> THEN 0
  ELSE (IF Head(rows).product_id = p THEN Head(rows).quantity ELSE 0)
       + SumQty(Tail(rows), p)

\* the rows of a table (a sequence) that satisfy Test
SelectRows(rows, Test(_)) == {i \in 1..Len(rows) : Test(rows[i])}

\* ------------------------------------------- constraints of the schema
\* products.stock CHECK (stock >= 0)
products_stock_check(stock) == stock >= 0

\* orders.total_price CHECK (total_price >= 0)
orders_total_price_check(total_price) == total_price >= 0

\* mutant: the column has no unique index
orders_trans_ref_key_Absent(rows, trans_ref) == TRUE

\* orders.trans_ref UNIQUE: NULLs never collide
orders_trans_ref_key(rows, trans_ref) ==
  trans_ref = NULL \/ \A i \in 1..Len(rows) : rows[i].trans_ref # trans_ref

\* orders.user_id and activity_logs.user_id REFERENCES profiles(id)
user_id_fkey(user_id) == user_id = NULL \/ user_id \in Profiles

\* order_items.quantity CHECK (quantity > 0)
order_items_quantity_check(quantity) == quantity > 0

\* order_items.unit_price CHECK (unit_price >= 0)
order_items_unit_price_check(unit_price) == unit_price >= 0

\* --------------------------------------------- place_order_complete
\* the store_settings row is locked FOR UPDATE by a call from its first
\* statement until its block ends
SettingsLockHeld == \E c \in Callers : pc[c] = "items"

\* a product row is locked by the call that selected it FOR UPDATE
RowLockedByOther(c, p) == \E d \in Callers \ {c} : p \in DOMAIN txProducts[d]

\* mutant: the SELECT reads the committed row, not the call's own write
StockSeenBy_Committed(c, p) == products[p].stock

\* the stock a call reads: its own uncommitted write, else the committed row
StockSeenBy(c, p) ==
  IF p \in DOMAIN txProducts[c] THEN txProducts[c][p] ELSE products[p].stock

\* IF v_current_stock < v_quantity THEN RAISE 'INSUFFICIENT_STOCK'
InsufficientStock(v_current_stock, v_quantity) == v_current_stock < v_quantity

\* mutant: the loop neither compares the stock with the quantity nor is
\* the column checked
ItemOutcome_Unchecked(found, v_current_stock, v_quantity) ==
  IF ~found THEN [error |-> "PRODUCT_UNAVAILABLE", stock |-> 0]
  ELSE [error |-> NULL, stock |-> v_current_stock - v_quantity]

\* one pass of the FOR loop over the product row it selected: the error it
\* raises, or the stock it writes
ItemOutcome(found, v_current_stock, v_quantity) ==
  IF ~found THEN [error |-> "PRODUCT_UNAVAILABLE", stock |-> 0]
  ELSE IF InsufficientStock(v_current_stock, v_quantity)
    THEN [error |-> "INSUFFICIENT_STOCK", stock |-> 0]
  ELSE IF ~products_stock_check(v_current_stock - v_quantity)
    THEN [error |-> "products_stock_check", stock |-> 0]
  ELSE [error |-> NULL, stock |-> v_current_stock - v_quantity]

\* INSERT INTO orders: the constraint it violates, or NULL (CHECKs are
\* tested before the row is stored, unique indexes when it is, foreign keys
\* when the statement ends)
InsertOrderError(a) ==
  IF ~orders_total_price_check(a.p_total_price) THEN "orders_total_price_check"
  ELSE IF ~orders_trans_ref_key(orders, a.p_trans_ref) THEN "orders_trans_ref_key"
  ELSE IF ~user_id_fkey(a.p_user_id) THEN "orders_user_id_fkey"
  ELSE NULL

\* INSERT INTO order_items ... FROM jsonb_array_elements(p_order_items)
InsertItemsError(items) ==
  IF \E i \in 1..Len(items) : ~order_items_quantity_check(items[i].quantity)
    THEN "order_items_quantity_check"
  ELSE IF \E i \in 1..Len(items) : ~order_items_unit_price_check(items[i].unit_price)
    THEN "order_items_unit_price_check"
  ELSE NULL

NewOrder(a) ==
  [user_id |-> a.p_user_id, total_price |-> a.p_total_price,
   shipping_fee |-> a.p_shipping_fee, trans_ref |-> a.p_trans_ref,
   status |-> "pending", thunder_verified |-> FALSE, payment_slip_url |-> NULL]

NewOrderItems(order_id, items) ==
  [i \in 1..Len(items) |->
     [order_id |-> order_id, product_id |-> items[i].product_id,
      quantity |-> items[i].quantity, unit_price |-> items[i].unit_price]]

LogRow(action_type, user_id, record_id, error_message) ==
  [action_type |-> action_type, user_id |-> user_id,
   record_id |-> record_id, error_message |-> error_message]

\* the product rows after the block's writes are committed
CommitProducts(rows, tx) ==
  [p \in DOMAIN rows |->
     IF p \in DOMAIN tx THEN [rows[p] EXCEPT !.stock = tx[p]] ELSE rows[p]]

\* mutant: the handler keeps the block's writes
RollbackProducts_Kept(rows, tx) == CommitProducts(rows, tx)

\* the product rows after the EXCEPTION clause rolled the block back
RollbackProducts(rows, tx) == rows

\* the calls that have been issued and have not returned
InFlight ==
  Cardinality({c \in Callers : pc[c] # "idle"})
  + Cardinality({v \in Verifiers : verify[v].pc # "idle"})

\* the caller issues the RPC
POC_Call(c, limit) ==
  /\ pc[c] = "idle"
  /\ BagCardinality(activity_logs) + InFlight < limit
  /\ pc' = [pc EXCEPT ![c] = "store"]
  /\ ret' = [ret EXCEPT ![c] = NoRet]
  /\ UNCHANGED <<dbVars, p_order_items, txProducts, clientVars>>

\* WHEN OTHERS: the block is rolled back, the error is logged and returned.
\* The handler's own INSERT is outside the block: when it fails, the error
\* leaves the function and the whole call is undone.
POC_Raise(c, p_user_id, error) ==
  /\ pc' = [pc EXCEPT ![c] = "idle"]
  /\ p_order_items' = [p_order_items EXCEPT ![c] = <<>>]
  /\ txProducts' = [txProducts EXCEPT ![c] = NoTx]
  /\ products' = RollbackProducts(products, txProducts[c])
  /\ IF user_id_fkey(p_user_id)
       THEN /\ activity_logs' = activity_logs (+)
                 SetToBag({LogRow("ORDER_ERROR", p_user_id, NULL, error)})
            /\ ret' = [ret EXCEPT ![c] =
                 [kind |-> "failure", order_id |-> 0, error |-> error]]
       ELSE /\ activity_logs' = activity_logs
            /\ ret' = [ret EXCEPT ![c] =
                 [kind |-> "raised", order_id |-> 0,
                  error |-> "activity_logs_user_id_fkey"]]
  /\ UNCHANGED <<is_store_open, orders, order_items, clientVars>>

\* SELECT is_store_open ... FOR UPDATE; IF NOT v_store_open THEN RAISE
POC_CheckStore(c, Users) ==
  /\ pc[c] = "store"
  /\ ~SettingsLockHeld
  /\ IF ~is_store_open
       THEN \E p_user_id \in Users : POC_Raise(c, p_user_id, "STORE_CLOSED")
       ELSE /\ pc' = [pc EXCEPT ![c] = "items"]
            /\ UNCHANGED <<dbVars, p_order_items, txProducts, ret, clientVars>>

\* one pass of FOR v_item IN ... LOOP
POC_Item(c, v_item, Users) ==
  /\ pc[c] = "items"
  /\ Len(p_order_items[c]) < MaxItems
  /\ LET v_product_id == v_item.product_id
         found == v_product_id \in DOMAIN products
                  /\ products[v_product_id].is_available
         out == ItemOutcome(found, StockSeenBy(c, v_product_id), v_item.quantity)
     IN /\ ~RowLockedByOther(c, v_product_id)
        /\ IF out.error # NULL
             THEN \E p_user_id \in Users : POC_Raise(c, p_user_id, out.error)
             ELSE /\ txProducts' = [txProducts EXCEPT ![c] =
                       [p \in DOMAIN @ \cup {v_product_id} |->
                          IF p = v_product_id THEN out.stock ELSE @[p]]]
                  /\ p_order_items' = [p_order_items EXCEPT ![c] = Append(@, v_item)]
                  /\ UNCHANGED <<dbVars, pc, ret, clientVars>>

\* after the loop: INSERT INTO orders, INSERT INTO order_items, the
\* ORDER_CREATED log row, the result; the transaction commits on return
POC_Insert(c, a) ==
  /\ pc[c] = "items"
  /\ LET v_order_id == Len(orders) + 1
         error == IF InsertOrderError(a) # NULL THEN InsertOrderError(a)
                  ELSE InsertItemsError(p_order_items[c])
     IN IF error # NULL
          THEN POC_Raise(c, a.p_user_id, error)
          ELSE /\ products' = CommitProducts(products, txProducts[c])
               /\ orders' = Append(orders, NewOrder(a))
               /\ order_items' = order_items \o NewOrderItems(v_order_id, p_order_items[c])
               /\ activity_logs' = activity_logs (+)
                    SetToBag({LogRow("ORDER_CREATED", a.p_user_id, v_order_id, NULL)})
               /\ ret' = [ret EXCEPT ![c] =
                    [kind |-> "success", order_id |-> v_order_id, error |-> NULL]]
               /\ pc' = [pc EXCEPT ![c] = "idle"]
               /\ p_order_items' = [p_order_items EXCEPT ![c] = <<>>]
               /\ txProducts' = [txProducts EXCEPT ![c] = NoTx]
               /\ UNCHANGED <<is_store_open, clientVars>>

\* StoreSettingsForm.onSubmit: the admin opens or closes the store; the
\* UPDATE waits while a call holds the row's lock
SaveStoreSettings(open) ==
  /\ ~SettingsLockHeld
  /\ is_store_open # open
  /\ is_store_open' = open
  /\ UNCHANGED <<products, orders, order_items, activity_logs,
                 pc, p_order_items, txProducts, ret, clientVars>>

\* the arguments the calls of Spec draw: a shipping fee of 0, at most one
\* transaction reference
OrderArgs ==
  [p_user_id : UserIds, p_total_price : Prices, p_shipping_fee : {0},
   p_trans_ref : {NULL, "REF01"}]

\* ------------------------------------------------------------------------
\* Spec: callers place orders concurrently while the admin opens and closes
\* the store
Next ==
  \/ \E c \in Callers : POC_Call(c, MaxLogs)
  \/ \E c \in Callers : POC_CheckStore(c, UserIds)
  \/ \E c \in Callers, v_item \in OrderItem : POC_Item(c, v_item, UserIds)
  \/ \E c \in Callers, a \in OrderArgs : POC_Insert(c, a)
  \/ \E open \in BOOLEAN : SaveStoreSettings(open)

Spec == Init /\ [][Next]_vars

\* ------------------------------------------------------------------------
\* a call of c returns in this step
Returns(c) == pc[c] # "idle" /\ pc'[c] = "idle"

Failure(error) == [kind |-> "failure", order_id |-> 0, error |-> error]

\* C1 (first half, holds): the orders that were placed took no more of a
\* product than the stock it started with
NoOversell ==
  \A p \in Products : SumQty(order_items, p) <= InitProducts[p].stock

\* C1 (second half): a pass of the loop over an available product whose
\* stock is below the quantity asked makes the call return success=false
\* with INSUFFICIENT_STOCK
InsufficientStockReported ==
  \A c \in Callers, v_item \in OrderItem :
    (/\ POC_Item(c, v_item, UserIds)
     /\ products[v_item.product_id].is_available
     /\ StockSeenBy(c, v_item.product_id) < v_item.quantity)
    => ret'[c] = Failure("INSUFFICIENT_STOCK")

\* C1: no oversell under concurrent checkout: the successful calls ordered
\* no more of a product than its stock before them, and a call that would
\* take the stock below zero returns success=false with INSUFFICIENT_STOCK
C1_NoOversellAndReported == []NoOversell /\ [][InsufficientStockReported]_vars

\* C3: a call that returns success=false leaves the stock of every product,
\* the orders and the order items as they were
C3_AllOrNothing ==
  [][\A c \in Callers :
       (Returns(c) /\ ret'[c].kind = "failure")
       => (products' = products /\ orders' = orders /\ order_items' = order_items)
    ]_vars

\* C3 witness: a call failed for lack of stock before any order was placed,
\* which (no quantity exceeds the initial stock) happens only after an
\* earlier element of the same call took the stock
C3_Witness ==
  \E c \in Callers :
    /\ ret[c] = Failure("INSUFFICIENT_STOCK")
    /\ orders = <<>>
    /\ \A p \in Products : products[p] = InitProducts[p]

C5_ClosedStoreRejects ==
  [][\A c \in Callers :
       (pc[c] = "store" /\ pc'[c] # "store" /\ ~is_store_open)
       => /\ ret'[c] = Failure("STORE_CLOSED")
          /\ orders' = orders /\ order_items' = order_items
          /\ products' = products
    ]_vars

\* C21: a call that read an element with a quantity of zero or less returns
\* success=false, leaves the stock of every product as it was and creates
\* no order
C21_NonPositiveQuantityRejected ==
  [][\A c \in Callers :
       (/\ Returns(c)
        /\ \E i \in 1..Len(p_order_items[c]) : p_order_items[c][i].quantity <= 0)
       => /\ ret'[c].kind = "failure"
          /\ products' = products
          /\ orders' = orders /\ order_items' = order_items
    ]_vars

\* C10: every call leaves exactly one activity log row: ORDER_CREATED for
\* the new order when it succeeds, ORDER_ERROR with the message when it fails
C10_OneLogRowPerCall ==
  [][\A c \in Callers :
       Returns(c)
       => \E row \in BagToSet(activity_logs') :
            /\ activity_logs' = activity_logs (+) SetToBag({row})
            /\ IF ret'[c].kind = "success"
                 THEN row.action_type = "ORDER_CREATED"
                      /\ row.record_id = ret'[c].order_id
                 ELSE row.action_type = "ORDER_ERROR"
                      /\ row.error_message # NULL
    ]_vars

\* ------------------------------------------------------------------------
\* SpecPrice: the calls draw p_total_price and p_shipping_fee from values
\* of both signs, for the one user who has a profile
PriceItems == [product_id : {"p1", "p2"}, quantity : {1}, unit_price : UnitPrices]

PriceArgs ==
  [p_user_id : Profiles, p_total_price : Prices, p_shipping_fee : Fees,
   p_trans_ref : {NULL}]

NextPrice ==
  \/ \E c \in Callers : POC_Call(c, MaxLogs)
  \/ \E c \in Callers : POC_CheckStore(c, Profiles)
  \/ \E c \in Callers, v_item \in PriceItems : POC_Item(c, v_item, Profiles)
  \/ \E c \in Callers, a \in PriceArgs : POC_Insert(c, a)
  \/ \E open \in BOOLEAN : SaveStoreSettings(open)

SpecPrice == Init /\ [][NextPrice]_vars

\* C9: no order row has a negative total_price or a negative shipping_fee
C9_PricesNonNegative ==
  \A i \in 1..Len(orders) :
    orders[i].total_price >= 0 /\ orders[i].shipping_fee >= 0

\* C9 (the half that holds): no order row has a negative total_price
TotalPriceNonNegative ==
  \A i \in 1..Len(orders) : orders[i].total_price >= 0

\* ------------------------------------------------------------------------
\* orderStore.cancelOrder and orderStore.updateOrderStatus

\* the statuses updateOrderStatus is called with: 'paid' by
\* PaymentSlipUploader, 'processing' and 'shipping' by the rows of
\* OrderTable, 'processing' and 'cancelled' by its bulk actions
StatusInputs == {"paid", "processing", "shipping", "cancelled"}

\* the order ids a client passes: no order has a larger id than the number
\* of log rows, and the larger ones name no order
OrderIds(limit) == 1..limit

\* a row of the products table is locked by a call in flight
RowLocked(p) == \E c \in Callers : p \in DOMAIN txProducts[c]

\* .from('order_items').select('product_id, quantity').eq('order_id', orderId)
ItemsOfOrder(orderId) ==
  LET ids == {i \in 1..Len(order_items) : order_items[i].order_id = orderId}
      Pick[S \in SUBSET ids] ==
        IF S = {} THEN <<>>
        ELSE LET i == CHOOSE x \in S : \A y \in S : x <= y
             IN <<[product_id |-> order_items[i].product_id,
                   quantity |-> order_items[i].quantity]>> \o Pick[S \ {i}]
  IN Pick[ids]

\* the RPC increment_product_stock(product_id, increment), when it is applied
increment_product_stock(rows, product_id, increment) ==
  [rows EXCEPT ![product_id].stock = @ + increment]

\* UPDATE orders SET status = ... WHERE id = orderId (no row: nothing changes)
SetOrderStatus(rows, orderId, status) ==
  [i \in 1..Len(rows) |->
     IF i = orderId THEN [rows[i] EXCEPT !.status = status] ELSE rows[i]]

ErrCannotCancel == "Cannot cancel order in current status"
ErrCancelOrder == "Failed to cancel order"

\* mutant: the map gives every order of the list the new status
LocalMap_All(local, orderId, status) == [o \in DOMAIN local |-> status]

\* state.orders.map(order => order.id === orderId ? { ...order, status } : order)
LocalMap(local, orderId, status) ==
  [o \in DOMAIN local |-> IF o = orderId THEN status ELSE local[o]]

\* state.currentOrder?.id === orderId ? { ...state.currentOrder, status }
\*                                     : state.currentOrder
CurrentMap(current, orderId, status) ==
  IF current.id # 0 /\ current.id = orderId
    THEN [current EXCEPT !.status = status] ELSE current

\* state.orders.filter(order => order.id !== orderId)
LocalFilter(local, orderId) == [o \in DOMAIN local \ {orderId} |-> local[o]]

\* mutant: every order may be cancelled
Cancellable_Any(status) == TRUE

\* order.status !== 'pending' throws
Cancellable(status) == status = "pending"

\* cancelOrder up to its loop: clears the error field, reads the order,
\* throws when the row is missing or the order is not pending (the catch
\* block keeps the message in the error field), reads its items (the items
\* of an order never change once it is stored, so the two reads are one
\* step)
CancelOrder_Fetch(k, orderId) ==
  /\ cancel[k].pc = "idle"
  /\ IF orderId \notin 1..Len(orders)
       THEN /\ cancel' = [cancel EXCEPT ![k] = NoCancel]
            /\ store' = [store EXCEPT ![k].error = ErrCancelOrder]
     ELSE IF ~Cancellable(orders[orderId].status)
       THEN /\ cancel' = [cancel EXCEPT ![k] = NoCancel]
            /\ store' = [store EXCEPT ![k].error = ErrCannotCancel]
     ELSE /\ cancel' = [cancel EXCEPT ![k] =
               [pc |-> "restore", order_id |-> orderId,
                items |-> ItemsOfOrder(orderId), restored |-> 0]]
          /\ store' = [store EXCEPT ![k].error = NULL]
  /\ UNCHANGED <<dbVars, pc, p_order_items, txProducts, ret, verify, uploader,
                 pageVars>>

\* the largest stock the model lets a restore reach: a run whose last
\* UPDATE fails leaves the order pending, so that a later run restores the
\* same items again, without end
StockCap == MaxStock + 1

\* one pass of its loop: the RPC's result is not looked at, so the loop goes
\* on whether the increment was applied or the call failed (restored counts
\* the pieces the run has put back)
CancelOrder_Restore(k, applied) ==
  /\ cancel[k].pc = "restore"
  /\ cancel[k].items # <<>>
  /\ LET item == Head(cancel[k].items)
     IN IF applied
          THEN /\ ~RowLocked(item.product_id)
               /\ products[item.product_id].stock + item.quantity <= StockCap
               /\ products' = increment_product_stock(products, item.product_id,
                                                      item.quantity)
          ELSE products' = products
  /\ cancel' = [cancel EXCEPT
       ![k].items = Tail(@),
       ![k].restored = IF applied THEN @ + Head(cancel[k].items).quantity ELSE @]
  /\ UNCHANGED <<is_store_open, orders, order_items, activity_logs,
                 pc, p_order_items, txProducts, ret, verify, uploader, appVars>>

\* after the loop: sets the status to cancelled and drops the order from
\* the local list, or throws if the update failed
CancelOrder_Update(k, ok) ==
  /\ cancel[k].pc = "restore"
  /\ cancel[k].items = <<>>
  /\ IF ok
       THEN /\ orders' = SetOrderStatus(orders, cancel[k].order_id, "cancelled")
            /\ store' = [store EXCEPT
                 ![k].orders = LocalFilter(@, cancel[k].order_id),
                 ![k].currentOrder = NoCurrentOrder]
       ELSE /\ orders' = orders
            /\ store' = [store EXCEPT ![k].error = ErrCancelOrder]
  /\ cancel' = [cancel EXCEPT ![k] = NoCancel]
  /\ UNCHANGED <<is_store_open, products, order_items, activity_logs,
                 pc, p_order_items, txProducts, ret, verify, uploader, pageVars>>

\* updateOrderStatus(orderId, status) of the admin's store: one UPDATE of
\* the orders row, then the local list follows
UpdateOrderStatus(orderId, status) ==
  /\ orders' = SetOrderStatus(orders, orderId, status)
  /\ store' = [store EXCEPT
       !["admin"].orders = LocalMap(@, orderId, status),
       !["admin"].currentOrder = CurrentMap(@, orderId, status),
       !["admin"].error = NULL]
  /\ orders' # orders \/ store' # store
  /\ UNCHANGED <<is_store_open, products, order_items, activity_logs,
                 pc, p_order_items, txProducts, ret, cancel, verify, uploader,
                 pageVars>>

\* ------------------------------------------------------------------------
\* SpecStock: orders are placed, cancelled and moved between statuses
\* concurrently
\* the elements the calls of SpecStock draw: one product, since the rows of
\* products are read and written one by one
StockItems ==
  [product_id : {"p1"}, quantity : {-1, 1}, unit_price : UnitPrices]

StockArgs ==
  [p_user_id : Profiles, p_total_price : {5}, p_shipping_fee : {0},
   p_trans_ref : {NULL}]

\* one customer cancels orders in SpecStock
StockCancellers == {"k1"}

NextStock ==
  \/ \E c \in Callers : POC_Call(c, MaxLogs)
  \/ \E c \in Callers : POC_CheckStore(c, Profiles)
  \/ \E c \in Callers, v_item \in StockItems : POC_Item(c, v_item, Profiles)
  \/ \E c \in Callers, a \in StockArgs : POC_Insert(c, a)
  \/ \E k \in StockCancellers, orderId \in OrderIds(MaxLogs) : CancelOrder_Fetch(k, orderId)
  \/ \E k \in StockCancellers, applied \in BOOLEAN : CancelOrder_Restore(k, applied)
  \/ \E k \in StockCancellers, ok \in BOOLEAN : CancelOrder_Update(k, ok)
  \/ \E orderId \in OrderIds(MaxLogs), status \in {"paid", "cancelled"} :
       UpdateOrderStatus(orderId, status)

SpecStock == Init /\ [][NextStock]_vars

\* C2: no product has a negative stock, committed or written by a call in
\* flight
C2_StockNonNegative ==
  /\ \A p \in Products : products[p].stock >= 0
  /\ \A c \in Callers : \A p \in DOMAIN txProducts[c] : txProducts[c][p] >= 0

\* C2 witness: a product is out of stock, a call was refused for lack of
\* stock, and an order was cancelled
C2_Witness ==
  /\ \E p \in Products : products[p].stock = 0
  /\ \E c \in Callers : ret[c] = Failure("INSUFFICIENT_STOCK")
  /\ \E i \in 1..Len(orders) : orders[i].status = "cancelled"

RECURSIVE HeldQty(_, _)
\* the total quantity of product p in the order items of orders that are
\* not cancelled
HeldQty(rows, p) ==
  IF rows = <<>> THEN 0
  ELSE (IF Head(rows).product_id = p /\ orders[Head(rows).order_id].status # "cancelled"
          THEN Head(rows).quantity ELSE 0)
       + HeldQty(Tail(rows), p)

\* C22: the committed stock of each product plus the quantity of it held by
\* orders that are not cancelled is the stock the product started with
C22_StockConserved ==
  \A p \in Products :
    products[p].stock + HeldQty(order_items, p) = InitProducts[p].stock

\* ------------------------------------------------------------------------
\* verify_payment_slip: its three statements run one after the other, each
\* on what is committed when it starts; the procedure takes no lock

\* SELECT EXISTS(... WHERE id = p_order_id AND trans_ref IS NULL)
\* mutant: the first check does not look at trans_ref
OrderAwaitsPayment_Exists(rows, p_order_id) == p_order_id \in 1..Len(rows)

\* SELECT EXISTS(... WHERE id = p_order_id AND trans_ref IS NULL)
OrderAwaitsPayment(rows, p_order_id) ==
  p_order_id \in 1..Len(rows) /\ rows[p_order_id].trans_ref = NULL

\* mutant: the procedure does not look for the reference
TransRefHeld_Never(rows, p_trans_ref) == FALSE

\* SELECT EXISTS(... WHERE trans_ref = p_trans_ref): never true of NULL
TransRefHeld(rows, p_trans_ref) ==
  p_trans_ref # NULL /\ \E i \in 1..Len(rows) : rows[i].trans_ref = p_trans_ref

\* the rows other than the one the UPDATE writes
OtherRows(rows, p_order_id) ==
  [i \in 1..(Len(rows) - 1) |-> IF i < p_order_id THEN rows[i] ELSE rows[i + 1]]

\* mutant: the UPDATE has no WHERE clause
MarkPaid_All(rows, p_order_id, p_trans_ref, p_slip_url) ==
  [i \in 1..Len(rows) |->
     [rows[i] EXCEPT !.status = "paid", !.trans_ref = p_trans_ref,
                     !.thunder_verified = TRUE, !.payment_slip_url = p_slip_url]]

\* UPDATE orders SET status = 'paid', trans_ref, thunder_verified,
\* payment_slip_url WHERE id = p_order_id
MarkPaid(rows, p_order_id, p_trans_ref, p_slip_url) ==
  [i \in 1..Len(rows) |->
     IF i = p_order_id
       THEN [rows[i] EXCEPT !.status = "paid", !.trans_ref = p_trans_ref,
                            !.thunder_verified = TRUE,
                            !.payment_slip_url = p_slip_url]
       ELSE rows[i]]

VerifyReturn(v, kind, order_id, error) ==
  verify' = [verify EXCEPT ![v] =
    [pc |-> "idle", p_order_id |-> 0, p_trans_ref |-> NULL,
     ret |-> [kind |-> kind, order_id |-> order_id, error |-> error]]]

\* the call is issued and its first statement runs
Verify_CheckOrder(v, p_order_id, p_trans_ref, limit) ==
  /\ verify[v].pc = "idle"
  /\ BagCardinality(activity_logs) + InFlight < limit
  /\ IF ~OrderAwaitsPayment(orders, p_order_id)
       THEN VerifyReturn(v, "failure", 0, "ORDER_NOT_FOUND_OR_ALREADY_VERIFIED")
       ELSE verify' = [verify EXCEPT ![v] =
              [pc |-> "duplicate", p_order_id |-> p_order_id,
               p_trans_ref |-> p_trans_ref, ret |-> NoRet]]
  /\ UNCHANGED <<dbVars, pc, p_order_items, txProducts, ret, cancel, uploader, appVars>>

\* its second statement
Verify_CheckDuplicate(v) ==
  /\ verify[v].pc = "duplicate"
  /\ IF TransRefHeld(orders, verify[v].p_trans_ref)
       THEN VerifyReturn(v, "failure", 0, "DUPLICATE_TRANSACTION_REFERENCE")
       ELSE verify' = [verify EXCEPT ![v].pc = "update"]
  /\ UNCHANGED <<dbVars, pc, p_order_items, txProducts, ret, cancel, uploader, appVars>>

\* after pg_sleep: the simulated answer, the UPDATE and the log row; a
\* violation of the unique index leaves the procedure as an error and
\* undoes nothing, since nothing was written
Verify_Update(v, p_slip_url) ==
  /\ verify[v].pc = "update"
  /\ LET p_order_id == verify[v].p_order_id
         p_trans_ref == verify[v].p_trans_ref
     IN IF p_trans_ref = NULL \/ p_trans_ref = ""
          THEN /\ activity_logs' = activity_logs (+) SetToBag({
                     LogRow("PAYMENT_FAILED", NULL, p_order_id,
                            "Invalid transaction reference")})
               /\ VerifyReturn(v, "failure", 0, "Invalid transaction reference")
               /\ orders' = orders
        ELSE IF ~orders_trans_ref_key(OtherRows(orders, p_order_id), p_trans_ref)
          THEN /\ VerifyReturn(v, "raised", 0, "orders_trans_ref_key")
               /\ UNCHANGED <<orders, activity_logs>>
        ELSE /\ orders' = MarkPaid(orders, p_order_id, p_trans_ref, p_slip_url)
             /\ activity_logs' = activity_logs (+) SetToBag({
                   LogRow("PAYMENT_VERIFIED", NULL, p_order_id, NULL)})
             /\ VerifyReturn(v, "success", p_order_id, NULL)
  /\ UNCHANGED <<is_store_open, products, order_items,
                 pc, p_order_items, txProducts, ret, cancel, uploader, appVars>>

\* ------------------------------------------------------------------------
\* PaymentSlipUploader.handleVerifyPayment and thunderClient.verifyPayment

\* what the customer types into the reference field
TypedRefs == {"REF01", " REF01 ", "AB", "  "}

\* String.prototype.trim on the texts of TypedRefs
Trim(text) ==
  CASE text = " REF01 " -> "REF01"
    [] text = "  " -> ""
    [] OTHER -> text

MinRefLength == 5

\* verifyPayment: the simulated answer of the payment API; success is true
\* when no rule is broken (the slip URL is the uploaded file's, never empty)
verifyPayment(trans_ref, amount) ==
  ~(trans_ref = "" \/ Len(trans_ref) < MinRefLength) /\ ~(amount <= 0)

\* the calls of verifyPayment one run of the handler makes: the single
\* call after the upload, which a failed upload skips
VerifyPaymentCalls(uploaded) == IF uploaded THEN 1 ELSE 0

\* the uploader of an order after a run of the handler
UploaderAfter(o, transRef, success, verifyCalls) ==
  [x \in DOMAIN uploader \cup {o} |->
     IF x = o
       THEN [transRef |-> transRef,
             verificationResult |-> IF success THEN "success" ELSE "failed",
             verifyCalls |-> verifyCalls]
       ELSE uploader[x]]

\* handleVerifyPayment of the uploader shown for order o, with a file
\* selected and a reference typed (it returns at once without them):
\* uploads the slip, asks verifyPayment, and on success calls
\* updateOrderStatus(orderId, 'paid'); a failed upload or update is caught
\* and shown as a failed verification
HandleVerifyPayment(o, transRef, totalAmount, uploaded, updated) ==
  /\ o \in 1..Len(orders)
  /\ Trim(transRef) # ""
  /\ LET success == uploaded /\ verifyPayment(Trim(transRef), totalAmount) /\ updated
     IN /\ orders' = IF success THEN SetOrderStatus(orders, o, "paid") ELSE orders
        /\ uploader' = UploaderAfter(o, transRef, success,
                                     VerifyPaymentCalls(uploaded))
  /\ (orders' # orders \/ uploader' # uploader)
  /\ UNCHANGED <<is_store_open, products, order_items, activity_logs,
                 pc, p_order_items, txProducts, ret, cancel, verify, appVars>>

\* ------------------------------------------------------------------------
\* SpecPay: orders without items are placed, with or without a transaction
\* reference, and paid through verify_payment_slip
PayLogs == MaxLogs + 1

PayArgs ==
  [p_user_id : Profiles, p_total_price : {5}, p_shipping_fee : {0},
   p_trans_ref : {NULL, "REF01"}]

PayRefs == {NULL, "", "REF01", "REF02"}

NextPay ==
  \/ \E c \in Callers : POC_Call(c, PayLogs)
  \/ \E c \in Callers : POC_CheckStore(c, Profiles)
  \/ \E c \in Callers, a \in PayArgs : POC_Insert(c, a)
  \/ \E v \in Verifiers, p_order_id \in OrderIds(PayLogs), p_trans_ref \in PayRefs :
       Verify_CheckOrder(v, p_order_id, p_trans_ref, PayLogs)
  \/ \E v \in Verifiers : Verify_CheckDuplicate(v)
  \/ \E v \in Verifiers : Verify_Update(v, "slip.png")

SpecPay == Init /\ [][NextPay]_vars

\* C6: no two distinct orders hold the same non-null trans_ref
C6_UniqueTransRef ==
  \A i, j \in 1..Len(orders) :
    (i # j /\ orders[i].trans_ref # NULL) => orders[i].trans_ref # orders[j].trans_ref

\* C6 witness: two orders hold references, one stored by
\* place_order_complete and one by verify_payment_slip
C6_Witness ==
  \E i, j \in 1..Len(orders) :
    /\ orders[i].trans_ref = "REF01" /\ ~orders[i].thunder_verified
    /\ orders[j].trans_ref = "REF02" /\ orders[j].thunder_verified

\* some order holds the reference
SomeOrderHolds(p_trans_ref) ==
  /\ p_trans_ref # NULL
  /\ \E i \in 1..Len(orders) : orders[i].trans_ref = p_trans_ref

VerifyFailure(error) == [kind |-> "failure", order_id |-> 0, error |-> error]

\* C7 as stated: a call of verify_payment_slip with a reference that some
\* order holds returns success=false with DUPLICATE_TRANSACTION_REFERENCE
\* and changes no order
C7_DuplicateReported ==
  [][\A v \in Verifiers, p_order_id \in OrderIds(PayLogs), p_trans_ref \in PayRefs :
       (/\ Verify_CheckOrder(v, p_order_id, p_trans_ref, PayLogs)
        /\ SomeOrderHolds(p_trans_ref)
        /\ verify'[v].pc = "idle")
       => /\ verify'[v].ret = VerifyFailure("DUPLICATE_TRANSACTION_REFERENCE")
          /\ orders' = orders
    ]_vars

\* C7 amended: a call with a reference that some order holds changes no
\* order and returns success=false, with ORDER_NOT_FOUND_OR_ALREADY_VERIFIED
\* from its first check when the target order is missing or has a
\* reference, and with DUPLICATE_TRANSACTION_REFERENCE from its second
\* check when the target order exists without one
C7_DuplicateRejected ==
  [][/\ \A v \in Verifiers, p_order_id \in OrderIds(PayLogs), p_trans_ref \in PayRefs :
          (/\ Verify_CheckOrder(v, p_order_id, p_trans_ref, PayLogs)
           /\ SomeOrderHolds(p_trans_ref))
          => /\ orders' = orders
             /\ IF p_order_id \in 1..Len(orders) /\ orders[p_order_id].trans_ref = NULL
                  THEN verify'[v].pc = "duplicate"
                  ELSE verify'[v].ret =
                         VerifyFailure("ORDER_NOT_FOUND_OR_ALREADY_VERIFIED")
     /\ \A v \in Verifiers :
          (Verify_CheckDuplicate(v) /\ SomeOrderHolds(verify[v].p_trans_ref))
          => /\ orders' = orders
             /\ verify'[v].ret = VerifyFailure("DUPLICATE_TRANSACTION_REFERENCE")
    ]_vars

\* C7 witness: one call was refused as a duplicate and another because its
\* target already had a reference, while an order holds REF01
C7_Witness ==
  /\ SomeOrderHolds("REF01")
  /\ \E v \in Verifiers :
       verify[v].ret = VerifyFailure("DUPLICATE_TRANSACTION_REFERENCE")
  /\ \E v \in Verifiers :
       verify[v].ret = VerifyFailure("ORDER_NOT_FOUND_OR_ALREADY_VERIFIED")

\* C15: a call of verify_payment_slip for an order id with no row, or for
\* an order whose trans_ref is set, returns success=false with
\* ORDER_NOT_FOUND_OR_ALREADY_VERIFIED in its first step, changes no order
\* and adds no activity log row
C15_NotFoundOrVerified ==
  [][\A v \in Verifiers, p_order_id \in OrderIds(PayLogs), p_trans_ref \in PayRefs :
       (/\ Verify_CheckOrder(v, p_order_id, p_trans_ref, PayLogs)
        /\ (p_order_id \notin 1..Len(orders)
            \/ orders[p_order_id].trans_ref # NULL))
       => /\ verify'[v].pc = "idle"
          /\ verify'[v].ret = VerifyFailure("ORDER_NOT_FOUND_OR_ALREADY_VERIFIED")
          /\ orders' = orders
          /\ activity_logs' = activity_logs
    ]_vars

\* C15 witness: a call was refused by the first check while one order has
\* a reference and another order id has no row
C15_Witness ==
  /\ \E v \in Verifiers :
       verify[v].ret = VerifyFailure("ORDER_NOT_FOUND_OR_ALREADY_VERIFIED")
  /\ \E i \in 1..Len(orders) : orders[i].trans_ref # NULL
  /\ Len(orders) < PayLogs

\* C16: the step in which verify_payment_slip returns success=true leaves
\* the target order paid, with the call's reference and slip and
\* thunder_verified, adds exactly one PAYMENT_VERIFIED row for it and
\* changes no other order; the step in which it returns success=false
\* after the duplicate checks leaves every order as it was and adds
\* exactly one PAYMENT_FAILED row
C16_VerifyEffect ==
  [][\A v \in Verifiers :
       (verify[v].pc = "update" /\ verify'[v].pc = "idle") =>
         LET o == verify[v].p_order_id
         IN /\ verify'[v].ret.kind = "success" =>
                 /\ orders'[o].status = "paid"
                 /\ orders'[o].trans_ref = verify[v].p_trans_ref
                 /\ orders'[o].thunder_verified
                 /\ orders'[o].payment_slip_url = "slip.png"
                 /\ Len(orders') = Len(orders)
                 /\ \A i \in 1..Len(orders) : i # o => orders'[i] = orders[i]
                 /\ activity_logs' = activity_logs (+) SetToBag({
                       LogRow("PAYMENT_VERIFIED", NULL, o, NULL)})
            /\ verify'[v].ret.kind = "failure" =>
                 /\ verify[v].p_trans_ref \in {NULL, ""}
                 /\ orders' = orders
                 /\ BagCardinality(activity_logs') = BagCardinality(activity_logs) + 1
                 /\ \E row \in BagToSet(activity_logs') :
                       /\ row.action_type = "PAYMENT_FAILED"
                       /\ row.record_id = o
                       /\ CopiesIn(row, activity_logs') = CopiesIn(row, activity_logs) + 1
    ]_vars

\* C16 witness: one call returned success=false for an empty or missing
\* reference and one returned success=true, and the order is paid
C16_Witness ==
  /\ \E v \in Verifiers : verify[v].ret = VerifyFailure("Invalid transaction reference")
  /\ \E v \in Verifiers :
       /\ verify[v].ret.kind = "success"
       /\ orders[verify[v].ret.order_id].status = "paid"
       /\ orders[verify[v].ret.order_id].payment_slip_url = "slip.png"

\* C24: no order has more than one PAYMENT_VERIFIED log row, the row each
\* call that returns success=true writes
C24_VerifiedOnce ==
  \A o \in OrderIds(PayLogs) :
    CopiesIn(LogRow("PAYMENT_VERIFIED", NULL, o, NULL), activity_logs) <= 1

\* ------------------------------------------------------------------------
\* SpecUpload: orders without items are placed and their customers verify
\* payments in the uploader
NextUpload ==
  \/ \E c \in Callers : POC_Call(c, PayLogs)
  \/ \E c \in Callers : POC_CheckStore(c, Profiles)
  \/ \E c \in Callers, a \in PayArgs : POC_Insert(c, a)
  \/ \E o \in OrderIds(PayLogs), transRef \in TypedRefs, totalAmount \in {0, 5},
        uploaded \in BOOLEAN, updated \in BOOLEAN :
       HandleVerifyPayment(o, transRef, totalAmount, uploaded, updated)

SpecUpload == Init /\ [][NextUpload]_vars

\* another order's uploader shows a successful verification with the same
\* reference
RefVerifiedElsewhere(o, transRef) ==
  \E x \in DOMAIN uploader \ {o} :
    /\ uploader[x].verificationResult = "success"
    /\ Trim(uploader[x].transRef) = Trim(transRef)

\* C8: once handleVerifyPayment succeeded for an order with a reference, a
\* run for another order with the same reference is rejected and leaves
\* that order's status as it was
C8_ReferenceNotReused ==
  [][\A o \in OrderIds(PayLogs), transRef \in TypedRefs, totalAmount \in {0, 5},
        uploaded \in BOOLEAN, updated \in BOOLEAN :
       (HandleVerifyPayment(o, transRef, totalAmount, uploaded, updated)
        /\ RefVerifiedElsewhere(o, transRef))
       => (uploader'[o].verificationResult = "failed" /\ orders' = orders)
    ]_vars

\* ------------------------------------------------------------------------
\* cartStore, CheckoutPage and orderStore.createOrder

\* mutant: addItem does not look for the product in the cart
AddItem_Append(items, product_id, quantity, price, stock) ==
  Append(items, [product_id |-> product_id, quantity |-> quantity,
                 unit_price |-> price, max_quantity |-> stock])

\* cartStore.addItem(product, quantity): the product as the browser shows it
AddItem(items, product_id, quantity, price, stock) ==
  IF \E i \in 1..Len(items) : items[i].product_id = product_id
    THEN [i \in 1..Len(items) |->
            IF items[i].product_id = product_id
              THEN [items[i] EXCEPT !.quantity = @ + quantity]
              ELSE items[i]]
    ELSE Append(items, [product_id |-> product_id, quantity |-> quantity,
                        unit_price |-> price, max_quantity |-> stock])

\* mutant: clearCart leaves the items
ClearCart_Kept(items) == items

\* cartStore.clearCart: set({ items: [] })
ClearCart(items) == <<>>

\* the largest quantity of one product a cart of the model holds
MaxCartQuantity == MaxStock + 1

\* the customer adds one piece of a product to the cart
Cart_AddItem(c, product_id) ==
  /\ \/ \E i \in 1..Len(cart[c]) :
          /\ cart[c][i].product_id = product_id
          /\ cart[c][i].quantity < MaxCartQuantity
     \/ /\ \A i \in 1..Len(cart[c]) : cart[c][i].product_id # product_id
        /\ Len(cart[c]) < MaxItems
  /\ cart' = [cart EXCEPT ![c] =
       AddItem(@, product_id, 1, 1, products[product_id].stock)]
  /\ UNCHANGED <<dbVars, pc, p_order_items, txProducts, ret, cancel, verify,
                 uploader, flat_shipping_fee, checkout, page, store>>

\* items.map(item => ({product_id, quantity, unit_price})) of onSubmit
OrderDataItems(items) ==
  [i \in 1..Len(items) |->
     [product_id |-> items[i].product_id, quantity |-> items[i].quantity,
      unit_price |-> items[i].unit_price]]

\* orderData.items.reduce((sum, item) => sum + item.unit_price * item.quantity, 0)
RECURSIVE TotalPrice(_)
TotalPrice(items) ==
  IF items = <<>> THEN 0
  ELSE Head(items).unit_price * Head(items).quantity + TotalPrice(Tail(items))

\* shipping_radius_km of the settings row, left at the default of the schema
ShippingRadiusKm == 10

\* CheckoutPage.fetchStoreSettings completes: the page keeps what it read
\* (a failed request leaves the page as it is)
FetchStoreSettings(c) ==
  /\ ~page[c].storeSettings.loaded
  /\ page' = [page EXCEPT ![c].storeSettings =
       [loaded |-> TRUE, flat_shipping_fee |-> flat_shipping_fee,
        shipping_radius_km |-> ShippingRadiusKm,
        is_store_open |-> is_store_open]]
  /\ UNCHANGED <<dbVars, pc, p_order_items, txProducts, ret, cancel, verify,
                 uploader, flat_shipping_fee, cart, checkout, store>>

ErrNotAuthenticated == "User not authenticated"
ErrCreateOrder == "Failed to create order"

Resolved(success, orderId, error) ==
  [kind |-> "resolved", success |-> success, orderId |-> orderId, error |-> error]

\* createOrder settles: only what its run sent, the error field and the
\* promise are kept
Settle(run, result) ==
  [pc |-> "idle", user |-> NULL, shipping_method |-> "pickup", items |-> <<>>,
   shippingFee |-> 0, displayedFee |-> 0,
   requests |-> run.requests, rpcCalls |-> run.rpcCalls,
   error |-> run.error, result |-> result]

\* mutant: the catch block returns the failure without writing the log row
Caught_Silent(run, errorMessage) ==
  Settle([run EXCEPT !.error = errorMessage], Resolved(FALSE, 0, errorMessage))

\* the catch block up to its await: the error field is set and the insert
\* of the ORDER_CREATE_ERROR row is sent
Caught(run, errorMessage) ==
  [run EXCEPT !.pc = "log", !.error = errorMessage, !.requests = @ + 1]

\* mutant: a failed RPC is sent again after the fee is read again
Throw_Retry(run, errorMessage) == [run EXCEPT !.pc = "settings"]

\* if (error) throw error / throw new Error(data.error || ...) inside the
\* try: control passes to the catch block
Throw(run, errorMessage) == Caught(run, errorMessage)

\* the createOrder runs in flight
CheckoutsRunning == Cardinality({c \in Callers : checkout[c].pc # "idle"})

\* CheckoutPage.onSubmit up to the first await of createOrder (displayedFee
\* is the shipping fee the page shows when the customer submits): returns at
\* once on an empty cart or a store the page believes closed; createOrder
\* throws without a user and otherwise asks for the shipping fee
OnSubmit(c, user, limit) ==
  /\ checkout[c].pc = "idle"
  /\ BagCardinality(activity_logs) + 2 * (CheckoutsRunning + 1) <= limit
  /\ cart[c] # <<>>
  /\ page[c].storeSettings.loaded
  /\ page[c].storeSettings.is_store_open
  /\ checkout' = [checkout EXCEPT ![c] =
       IF user = NULL
         THEN Caught([pc |-> "start", user |-> NULL,
                      shipping_method |-> "pickup", items |-> <<>>,
                      shippingFee |-> 0, displayedFee |-> 0,
                      requests |-> 0, rpcCalls |-> 0,
                      error |-> NULL, result |-> NoResult],
                     ErrNotAuthenticated)
         ELSE [pc |-> "settings", user |-> user,
               shipping_method |-> page[c].shippingMethod,
               items |-> OrderDataItems(cart[c]), shippingFee |-> 0,
               displayedFee |-> page[c].shippingFee,
               requests |-> 1, rpcCalls |-> 0, error |-> NULL,
               result |-> NoResult]]
  /\ UNCHANGED <<dbVars, pc, p_order_items, txProducts, ret, cancel, verify,
                 uploader, flat_shipping_fee, cart, page, store>>

\* orderData.shipping_method === 'delivery' ? (storeSettings?.flat_shipping_fee || 0) : 0
ShippingFeeOf(shipping_method, fetched, fee) ==
  IF shipping_method = "delivery" THEN (IF fetched THEN fee ELSE 0) ELSE 0

\* the answer to the select of flat_shipping_fee arrives (or its failure,
\* which the code does not look at) and createOrder sends the RPC
CreateOrder_Settings(c, fetched) ==
  /\ checkout[c].pc = "settings"
  /\ pc[c] = "idle"
  /\ checkout' = [checkout EXCEPT
       ![c].pc = "rpc",
       ![c].shippingFee =
          ShippingFeeOf(checkout[c].shipping_method, fetched, flat_shipping_fee),
       ![c].requests = @ + 1,
       ![c].rpcCalls = @ + 1]
  /\ ret' = [ret EXCEPT ![c] = NoRet]
  /\ UNCHANGED <<dbVars, pc, p_order_items, txProducts, cancel, verify,
                 uploader, flat_shipping_fee, cart, page, store>>

\* the arguments createOrder passes to place_order_complete
RpcArgs(c) ==
  [p_user_id |-> checkout[c].user,
   p_total_price |-> TotalPrice(checkout[c].items),
   p_shipping_fee |-> checkout[c].shippingFee,
   p_trans_ref |-> NULL]

\* the RPC was sent and the procedure has not started
RpcSent(c) == checkout[c].pc = "rpc" /\ pc[c] = "idle" /\ ret[c] = NoRet

\* the procedure returned
RpcReturned(c) == checkout[c].pc = "rpc" /\ pc[c] = "idle" /\ ret[c] # NoRet

\* mutant: the answer is not looked at
RpcSucceeded_Always(delivered, r) == TRUE

\* if (error) throw error; if (!data.success) throw new Error(data.error || ...)
RpcSucceeded(delivered, r) == delivered /\ r.kind = "success"

ErrTransport == "TypeError: Failed to fetch"

\* error instanceof Error ? error.message : 'Failed to create order', of
\* what was thrown: new Error(data.error || ...) for a delivered
\* success=false answer, else the error object of the client library,
\* which is an Error instance or a plain object (instanceOfError)
ErrorMessage(delivered, r, instanceOfError) ==
  IF delivered /\ r.kind = "failure"
    THEN IF r.error # "" /\ r.error # NULL THEN r.error ELSE ErrCreateOrder
  ELSE IF ~instanceOfError THEN ErrCreateOrder
  ELSE IF delivered /\ r.kind = "raised" THEN r.error
  ELSE ErrTransport

\* the answer to the RPC arrives, or the request fails on the way (before
\* the procedure started or after it returned): on success the cart is
\* cleared and the promise resolves, otherwise the error is kept and the
\* log row is sent
CreateOrder_Rpc(c, delivered, instanceOfError) ==
  /\ RpcReturned(c) \/ (RpcSent(c) /\ ~delivered)
  /\ IF RpcSucceeded(delivered, ret[c])
       THEN /\ cart' = [cart EXCEPT ![c] = ClearCart(@)]
            /\ checkout' = [checkout EXCEPT ![c] =
                 Settle(@, Resolved(TRUE, ret[c].order_id, NULL))]
       ELSE /\ cart' = cart
            /\ checkout' = [checkout EXCEPT ![c] =
                 Throw(@, ErrorMessage(delivered, ret[c], instanceOfError))]
  /\ UNCHANGED <<dbVars, pc, p_order_items, txProducts, ret, cancel, verify,
                 uploader, flat_shipping_fee, page, store>>

\* the insert of the ORDER_CREATE_ERROR row ends, stored or not, and the
\* promise resolves to the failure
CreateOrder_Log(c, stored) ==
  /\ checkout[c].pc = "log"
  /\ activity_logs' =
       IF stored
         THEN activity_logs (+) SetToBag({
                LogRow("ORDER_CREATE_ERROR", NULL, NULL, checkout[c].error)})
         ELSE activity_logs
  /\ checkout' = [checkout EXCEPT ![c] =
       Settle(@, Resolved(FALSE, 0, checkout[c].error))]
  /\ UNCHANGED <<is_store_open, products, orders, order_items,
                 pc, p_order_items, txProducts, ret, cancel, verify,
                 uploader, flat_shipping_fee, cart, page, store>>

\* CheckoutPage.calculateShippingFee: the fee the page shows
CalculateShippingFee(storeSettings, shippingMethod, shippingDistance) ==
  IF ~storeSettings.loaded \/ shippingMethod = "pickup" THEN 0
  ELSE IF shippingDistance > 0
    THEN IF shippingDistance <= storeSettings.shipping_radius_km
           THEN storeSettings.flat_shipping_fee
           ELSE 0
  ELSE storeSettings.flat_shipping_fee

\* the customer picks a shipping method: the effects on shippingMethod run
SelectShippingMethod(c, shipping_method) ==
  /\ page[c].shippingMethod # shipping_method
  /\ page' = [page EXCEPT
       ![c].shippingMethod = shipping_method,
       ![c].shippingFee = CalculateShippingFee(page[c].storeSettings,
                            shipping_method, page[c].shippingDistance)]
  /\ UNCHANGED <<dbVars, pc, p_order_items, txProducts, ret, cancel, verify,
                 uploader, flat_shipping_fee, cart, checkout, store>>

\* handleDistanceCalculated: the effect on shippingDistance runs
HandleDistanceCalculated(c, distance) ==
  /\ page[c].shippingDistance # distance
  /\ page' = [page EXCEPT
       ![c].shippingDistance = distance,
       ![c].shippingFee = CalculateShippingFee(page[c].storeSettings,
                            page[c].shippingMethod, distance)]
  /\ UNCHANGED <<dbVars, pc, p_order_items, txProducts, ret, cancel, verify,
                 uploader, flat_shipping_fee, cart, checkout, store>>

\* StoreSettingsForm.onSubmit with another flat_shipping_fee; the UPDATE
\* waits while a call holds the row's lock
SaveShippingFee(fee) ==
  /\ ~SettingsLockHeld
  /\ flat_shipping_fee # fee
  /\ flat_shipping_fee' = fee
  /\ UNCHANGED <<dbVars, pc, p_order_items, txProducts, ret, cancel, verify,
                 uploader, cart, checkout, page, store>>

\* ------------------------------------------------------------------------
\* SpecCheckout: customers fill their carts and check out through
\* CheckoutPage while the admin opens and closes the store; a customer may
\* have lost the session (no user)
CheckoutLogs == MaxLogs + 1

CheckoutUsers == Profiles \cup {NULL}

\* the procedure runs on the arguments createOrder sent
POC_OfCheckout(c, limit) ==
  \/ RpcSent(c) /\ POC_Call(c, limit)
  \/ POC_CheckStore(c, {checkout[c].user})
  \/ /\ Len(p_order_items[c]) < Len(checkout[c].items)
     /\ POC_Item(c, checkout[c].items[Len(p_order_items[c]) + 1], {checkout[c].user})
  \/ /\ Len(p_order_items[c]) = Len(checkout[c].items)
     /\ POC_Insert(c, RpcArgs(c))

NextCheckout ==
  \/ \E c \in Callers : Cart_AddItem(c, "p1")
  \/ \E c \in Callers : FetchStoreSettings(c)
  \/ \E c \in Callers, user \in CheckoutUsers : OnSubmit(c, user, CheckoutLogs)
  \/ \E c \in Callers, fetched \in BOOLEAN : CreateOrder_Settings(c, fetched)
  \/ \E c \in Callers : POC_OfCheckout(c, CheckoutLogs)
  \/ \E c \in Callers, delivered \in BOOLEAN, instanceOfError \in BOOLEAN :
        CreateOrder_Rpc(c, delivered, instanceOfError)
  \/ \E c \in Callers, stored \in BOOLEAN : CreateOrder_Log(c, stored)
  \/ \E open \in BOOLEAN : SaveStoreSettings(open)

\* a createOrder run of customer c settles in this step
Settles(c) == checkout[c].pc # "idle" /\ checkout'[c].pc = "idle"

\* C11: whenever createOrder settles, its promise is resolved, never
\* rejected; a failure of the procedure, of the transport or of
\* authentication resolves to success=false with a non-empty error that is
\* also the store's error field; success=true only when the procedure
\* returned success=true to this run
C11_FailureIsAValue ==
  [][\A c \in Callers :
       Settles(c) =>
         /\ checkout'[c].result.kind = "resolved"
         /\ checkout'[c].result.success =>
               (checkout[c].pc = "rpc" /\ ret[c].kind = "success"
                /\ checkout'[c].result.orderId = ret[c].order_id)
         /\ ~checkout'[c].result.success =>
               /\ checkout'[c].result.error \notin {"", NULL}
               /\ checkout'[c].error = checkout'[c].result.error
         /\ (checkout[c].pc = "rpc" /\ ret[c].kind # "success") =>
               ~checkout'[c].result.success
    ]_vars

\* C11 witness: one customer's checkout failed for want of a user, the
\* other's was refused by the procedure, and both resolved to a failure
C11_Witness ==
  \E c, d \in Callers :
    /\ checkout[c].pc = "idle" /\ checkout[d].pc = "idle"
    /\ checkout[c].result = Resolved(FALSE, 0, ErrNotAuthenticated)
    /\ checkout[d].result.kind = "resolved" /\ ~checkout[d].result.success
    /\ checkout[d].rpcCalls = 1
    /\ checkout[d].result.error \notin {ErrNotAuthenticated, ErrCreateOrder, ErrTransport}

\* C12 as stated (refuted): a createOrder run has made exactly one request
\* to the backend, the place_order_complete RPC, when it settles
C12_OneRequest ==
  [][\A c \in Callers :
       Settles(c) => (checkout'[c].requests = 1 /\ checkout'[c].rpcCalls = 1)
    ]_vars

\* C12 (amended): a createOrder run with a user has sent one select of
\* flat_shipping_fee and one place_order_complete RPC when it resolves to
\* success: 2 requests; on failure it has also sent the insert of the
\* ORDER_CREATE_ERROR row: 3 requests; without a user it has sent that
\* insert alone and no RPC
C12_RequestsPerCheckout ==
  [][\A c \in Callers :
       Settles(c) =>
         /\ checkout'[c].result.success =>
               (checkout'[c].requests = 2 /\ checkout'[c].rpcCalls = 1)
         /\ (~checkout'[c].result.success /\ checkout[c].user # NULL) =>
               (checkout'[c].requests = 3 /\ checkout'[c].rpcCalls = 1)
         /\ (~checkout'[c].result.success /\ checkout[c].user = NULL) =>
               (checkout'[c].requests = 1 /\ checkout'[c].rpcCalls = 0)
    ]_vars

\* C12 witness: one checkout succeeded after 2 requests and another failed
\* in the procedure after 3
C12_Witness ==
  \E c, d \in Callers :
    /\ checkout[c].pc = "idle" /\ checkout[c].result.kind = "resolved"
    /\ checkout[c].result.success /\ checkout[c].requests = 2
    /\ checkout[d].pc = "idle" /\ checkout[d].result.kind = "resolved"
    /\ ~checkout[d].result.success /\ checkout[d].requests = 3

\* SpecRetry: one customer checks out and verifies payments of the orders
\* in the uploader
RetryRefs == {"REF01", "AB"}

NextRetry ==
  \/ Cart_AddItem("c1", "p1")
  \/ FetchStoreSettings("c1")
  \/ \E user \in CheckoutUsers : OnSubmit("c1", user, CheckoutLogs)
  \/ \E fetched \in BOOLEAN : CreateOrder_Settings("c1", fetched)
  \/ POC_OfCheckout("c1", CheckoutLogs)
  \/ \E delivered \in BOOLEAN, instanceOfError \in BOOLEAN :
        CreateOrder_Rpc("c1", delivered, instanceOfError)
  \/ \E stored \in BOOLEAN : CreateOrder_Log("c1", stored)
  \/ \E o \in OrderIds(CheckoutLogs), transRef \in RetryRefs,
        uploaded \in BOOLEAN, updated \in BOOLEAN :
       HandleVerifyPayment(o, transRef, 5, uploaded, updated)

SpecRetry == Init /\ [][NextRetry]_vars

\* C13: a createOrder run has sent place_order_complete at most once, and
\* sends it only as the step after the fee was read, never again after an
\* answer or a failure; a run of handleVerifyPayment has called
\* verifyPayment at most once
C13_NoRetry ==
  [][/\ \A c \in Callers :
          /\ checkout'[c].rpcCalls <= 1
          /\ checkout'[c].rpcCalls > checkout[c].rpcCalls =>
                (checkout[c].pc = "settings" /\ checkout[c].rpcCalls = 0)
          /\ (checkout[c].pc \in {"rpc", "log"}) =>
                (checkout'[c].pc \in {"rpc", "log", "idle"}
                 /\ checkout'[c].rpcCalls = checkout[c].rpcCalls)
     /\ \A o \in DOMAIN uploader' : uploader'[o].verifyCalls <= 1
    ]_vars

\* C13 witness: a checkout failed after its one RPC and a verification
\* failed after its one call of verifyPayment
C13_Witness ==
  /\ checkout["c1"].pc = "idle" /\ checkout["c1"].result.kind = "resolved"
  /\ ~checkout["c1"].result.success /\ checkout["c1"].rpcCalls = 1
  /\ \E o \in DOMAIN uploader :
       uploader[o].verificationResult = "failed" /\ uploader[o].verifyCalls = 1

\* C19: the step in which createOrder resolves to success=true leaves the
\* customer's cart empty; every other step of a createOrder run, the one
\* resolving to success=false included, leaves the cart's items as they
\* were
C19_CartClearedOnSuccess ==
  [][\A c \in Callers :
       /\ (Settles(c) /\ checkout'[c].result.success) => cart'[c] = <<>>
       /\ (/\ checkout[c].pc # "idle"
           /\ checkout'[c] # checkout[c]
           /\ ~(Settles(c) /\ checkout'[c].result.success))
          => cart'[c] = cart[c]
    ]_vars

\* C19 witness: one customer's checkout succeeded and the cart is empty,
\* the other's failed in the procedure and the cart still has its items
C19_Witness ==
  \E c, d \in Callers :
    /\ checkout[c].pc = "idle" /\ checkout[c].result.kind = "resolved"
    /\ checkout[c].result.success /\ cart[c] = <<>>
    /\ checkout[d].pc = "idle" /\ checkout[d].result.kind = "resolved"
    /\ ~checkout[d].result.success /\ checkout[d].rpcCalls = 1
    /\ cart[d] # <<>>

\* ------------------------------------------------------------------------
\* SpecFee: a customer picks a shipping method and an address on
\* CheckoutPage and checks out while the admin changes the flat fee
Distances == {0, 5, 15}

FlatFees == {0, 3}

NextFee ==
  \/ Cart_AddItem("c1", "p1")
  \/ FetchStoreSettings("c1")
  \/ \E shipping_method \in {"pickup", "delivery"} :
       SelectShippingMethod("c1", shipping_method)
  \/ \E distance \in Distances : HandleDistanceCalculated("c1", distance)
  \/ \E fee \in FlatFees : SaveShippingFee(fee)
  \/ \E user \in Profiles : OnSubmit("c1", user, CheckoutLogs)
  \/ \E fetched \in BOOLEAN : CreateOrder_Settings("c1", fetched)
  \/ POC_OfCheckout("c1", CheckoutLogs)
  \/ \E delivered \in BOOLEAN, instanceOfError \in BOOLEAN :
        CreateOrder_Rpc("c1", delivered, instanceOfError)
  \/ \E stored \in BOOLEAN : CreateOrder_Log("c1", stored)

SpecFee == Init /\ [][NextFee]_vars

\* C20: the order a checkout stores has shipping_fee 0 for pickup and the
\* store's flat_shipping_fee for delivery, and that is the fee CheckoutPage
\* showed when the customer submitted
C20_FeeAsDisplayed ==
  [][\A c \in Callers :
       (Returns(c) /\ ret'[c].kind = "success" /\ checkout[c].pc = "rpc")
       => LET shipping_fee == orders'[ret'[c].order_id].shipping_fee
          IN /\ shipping_fee =
                  IF checkout[c].shipping_method = "pickup"
                    THEN 0 ELSE flat_shipping_fee
             /\ shipping_fee = checkout[c].displayedFee
    ]_vars

\* ------------------------------------------------------------------------
\* orderStore.fetchOrders and the customers' cancelOrder

\* the rows fetchOrders keeps (no filter set): each order with its status
LocalOrders(rows) == [o \in 1..Len(rows) |-> rows[o].status]

\* fetchOrders of a browser's store: the list is replaced by what was read
FetchOrders(s) ==
  /\ store' = [store EXCEPT ![s].orders = LocalOrders(orders), ![s].error = NULL]
  /\ store' # store
  /\ UNCHANGED <<dbVars, pc, p_order_items, txProducts, ret, cancel, verify,
                 uploader, pageVars>>

\* SpecCancel: a customer places orders of one piece of p1, lists them and
\* cancels them, while the admin marks orders paid
CancelItems == [product_id : {"p1"}, quantity : {1}, unit_price : {5}]

NextCancel ==
  \/ POC_Call("c1", MaxLogs)
  \/ POC_CheckStore("c1", Profiles)
  \/ \E v_item \in CancelItems : POC_Item("c1", v_item, Profiles)
  \/ \E a \in StockArgs : POC_Insert("c1", a)
  \/ FetchOrders("k1")
  \/ \E k \in StockCancellers, orderId \in OrderIds(MaxLogs) : CancelOrder_Fetch(k, orderId)
  \/ \E k \in StockCancellers, applied \in BOOLEAN : CancelOrder_Restore(k, applied)
  \/ \E k \in StockCancellers, ok \in BOOLEAN : CancelOrder_Update(k, ok)
  \/ \E orderId \in OrderIds(MaxLogs) : UpdateOrderStatus(orderId, "paid")

SpecCancel == Init /\ [][NextCancel]_vars

\* C17: cancelOrder called for an order that is not pending throws 'Cannot
\* cancel order in current status' (the message its catch block keeps in
\* the error field), and the run ends there: no product's stock, no order
\* and no entry of the browser's orders list has changed
C17_OnlyPendingCancelled ==
  [][\A k \in Cancellers, orderId \in OrderIds(MaxLogs) :
       (/\ CancelOrder_Fetch(k, orderId)
        /\ orderId \in 1..Len(orders)
        /\ orders[orderId].status # "pending")
       => /\ store'[k].error = ErrCannotCancel
          /\ cancel'[k].pc = "idle"
          /\ products' = products
          /\ orders' = orders
          /\ store'[k].orders = store[k].orders
    ]_vars

\* C17 witness: a browser that lists a paid order was refused its
\* cancellation
C17_Witness ==
  \E k \in Cancellers :
    /\ store[k].error = ErrCannotCancel
    /\ \E o \in DOMAIN store[k].orders : o \in 1..Len(orders) /\ orders[o].status = "paid"

RECURSIVE TotalQuantity(_)
TotalQuantity(items) ==
  IF items = <<>> THEN 0 ELSE Head(items).quantity + TotalQuantity(Tail(items))

\* C18: when a run of cancelOrder ends without throwing (its error field is
\* still null), the order is cancelled and the run has put back exactly the
\* quantities of the order's items; when it ends by throwing, it has either
\* put back all of them and cancelled the order, or put back nothing and
\* left the order as it was
C18_CancelRestoresStock ==
  [][\A k \in Cancellers :
       (cancel[k].pc = "restore" /\ cancel'[k].pc = "idle") =>
         LET o == cancel[k].order_id
             all == TotalQuantity(ItemsOfOrder(o))
         IN IF store'[k].error = NULL
              THEN orders'[o].status = "cancelled" /\ cancel[k].restored = all
              ELSE \/ (orders'[o].status = "cancelled" /\ orders' # orders
                       /\ cancel[k].restored = all)
                   \/ (orders' = orders /\ cancel[k].restored = 0)
    ]_vars

\* ------------------------------------------------------------------------
\* OrderTable of the admin

\* the row checkbox: the order joins or leaves selectedOrders
ToggleOrder(o) ==
  /\ o \in DOMAIN store["admin"].orders
  /\ store' = [store EXCEPT !["admin"].selectedOrders =
       IF o \in @ THEN @ \ {o} ELSE @ \cup {o}]
  /\ UNCHANGED <<dbVars, pc, p_order_items, txProducts, ret, cancel, verify,
                 uploader, pageVars>>

\* the header checkbox: every listed order, or none
SelectAll(checked) ==
  /\ store' = [store EXCEPT !["admin"].selectedOrders =
       IF checked THEN DOMAIN store["admin"].orders ELSE {}]
  /\ store' # store
  /\ UNCHANGED <<dbVars, pc, p_order_items, txProducts, ret, cancel, verify,
                 uploader, pageVars>>

\* the status the button of a row sets, by the status the row shows
RowTarget(status) == IF status = "paid" THEN "processing" ELSE "shipping"

\* 'Mark as Processing' of a row shown as paid, 'Ship' of a row shown as
\* processing
RowAction(o) ==
  /\ o \in DOMAIN store["admin"].orders
  /\ store["admin"].orders[o] \in {"paid", "processing"}
  /\ UpdateOrderStatus(o, RowTarget(store["admin"].orders[o]))

\* the UPDATEs of selectedOrders.forEach(handleStatusUpdate)
SetOrdersStatus(rows, ids, status) ==
  [i \in 1..Len(rows) |->
     IF i \in ids THEN [rows[i] EXCEPT !.status = status] ELSE rows[i]]

\* the bulk buttons: every selected order is set to the status, whatever
\* its own, and the selection is emptied
BulkAction(status) ==
  /\ store["admin"].selectedOrders # {}
  /\ orders' = SetOrdersStatus(orders, store["admin"].selectedOrders, status)
  /\ store' = [store EXCEPT
       !["admin"].orders =
          [o \in DOMAIN @ |->
             IF o \in store["admin"].selectedOrders THEN status ELSE @[o]],
       !["admin"].selectedOrders = {},
       !["admin"].error = NULL]
  /\ UNCHANGED <<is_store_open, products, order_items, activity_logs,
                 pc, p_order_items, txProducts, ret, cancel, verify, uploader,
                 pageVars>>

\* SpecAdmin: orders without items are placed and paid in the uploader,
\* and the admin works through OrderTable
NextAdmin ==
  \/ POC_Call("c1", MaxLogs)
  \/ POC_CheckStore("c1", Profiles)
  \/ \E a \in StockArgs : POC_Insert("c1", a)
  \/ \E o \in OrderIds(MaxLogs) : HandleVerifyPayment(o, "REF01", 5, TRUE, TRUE)
  \/ FetchOrders("admin")
  \/ \E o \in OrderIds(MaxLogs) : ToggleOrder(o)
  \/ \E checked \in BOOLEAN : SelectAll(checked)
  \/ \E o \in OrderIds(MaxLogs) : RowAction(o)
  \/ \E status \in {"processing", "cancelled"} : BulkAction(status)

SpecAdmin == Init /\ [][NextAdmin]_vars

\* a step of an OrderTable action: a row button or a bulk button
OrderTableAction ==
  \/ \E o \in OrderIds(MaxLogs) : RowAction(o)
  \/ \E status \in {"processing", "cancelled"} : BulkAction(status)

\* C14: through the OrderTable actions an order becomes 'processing' only
\* from 'paid' and 'shipping' only from 'processing', and an order that is
\* 'delivered' or 'cancelled' keeps its status
C14_StatusTransitions ==
  [][\A o \in 1..Len(orders) :
       (OrderTableAction /\ orders'[o].status # orders[o].status) =>
         /\ orders'[o].status = "processing" => orders[o].status = "paid"
         /\ orders'[o].status = "shipping" => orders[o].status = "processing"
         /\ orders[o].status \notin {"delivered", "cancelled"}
    ]_vars

\* ------------------------------------------------------------------------
\* SpecRace: a customer places orders of one piece of p1 and two browsers
\* cancel them, each request of cancelOrder going through
NextRace ==
  \/ POC_Call("c1", MaxLogs)
  \/ POC_CheckStore("c1", Profiles)
  \/ \E v_item \in CancelItems : POC_Item("c1", v_item, Profiles)
  \/ \E a \in StockArgs : POC_Insert("c1", a)
  \/ \E k \in Cancellers, orderId \in OrderIds(MaxLogs) : CancelOrder_Fetch(k, orderId)
  \/ \E k \in Cancellers : CancelOrder_Restore(k, TRUE)
  \/ \E k \in Cancellers : CancelOrder_Update(k, TRUE)

SpecRace == Init /\ [][NextRace]_vars

NextSettle ==
  \/ POC_Call("c1", PayLogs)
  \/ POC_CheckStore("c1", Profiles)
  \/ \E a \in StockArgs : POC_Insert("c1", a)
  \/ \E orderId \in OrderIds(PayLogs) : CancelOrder_Fetch("k1", orderId)
  \/ \E ok \in BOOLEAN : CancelOrder_Update("k1", ok)
  \/ \E p_order_id \in OrderIds(PayLogs) :
       Verify_CheckOrder("v1", p_order_id, "REF01", PayLogs)
  \/ Verify_CheckDuplicate("v1")
  \/ Verify_Update("v1", "slip.png")
  \/ \E o \in OrderIds(PayLogs), uploaded \in BOOLEAN, updated \in BOOLEAN :
       HandleVerifyPayment(o, "REF02", 5, uploaded, updated)

SpecSettle == Init /\ [][NextSettle]_vars

\* C25: an order that is cancelled is not paid in the next state, whatever
\* verify_payment_slip, handleVerifyPayment or cancelOrder does
C25_CancelledStaysUnpaid ==
  [][\A o \in 1..Len(orders) :
       orders[o].status = "cancelled" => orders'[o].status # "paid"
    ]_vars

\* ------------------------------------------------------------------------
\* the other actions of cartStore

\* state.items.filter(item => item.product_id !== productId)
RemoveItem(items, productId) ==
  SelectSeq(items, LAMBDA item : item.product_id # productId)

Min(a, b) == IF a <= b THEN a ELSE b

\* cartStore.updateQuantity(productId, quantity)
UpdateQuantity(items, productId, quantity) ==
  IF quantity <= 0 THEN RemoveItem(items, productId)
  ELSE [i \in 1..Len(items) |->
          IF items[i].product_id = productId
            THEN [items[i] EXCEPT !.quantity = Min(quantity, items[i].max_quantity)]
            ELSE items[i]]

Cart_RemoveItem(c, productId) ==
  /\ cart' = [cart EXCEPT ![c] = RemoveItem(@, productId)]
  /\ cart' # cart
  /\ UNCHANGED <<dbVars, pc, p_order_items, txProducts, ret, cancel, verify,
                 uploader, flat_shipping_fee, checkout, page, store>>

Cart_UpdateQuantity(c, productId, quantity) ==
  /\ cart' = [cart EXCEPT ![c] = UpdateQuantity(@, productId, quantity)]
  /\ cart' # cart
  /\ UNCHANGED <<dbVars, pc, p_order_items, txProducts, ret, cancel, verify,
                 uploader, flat_shipping_fee, checkout, page, store>>

Cart_ClearCart(c) ==
  /\ cart[c] # <<>>
  /\ cart' = [cart EXCEPT ![c] = ClearCart(@)]
  /\ UNCHANGED <<dbVars, pc, p_order_items, txProducts, ret, cancel, verify,
                 uploader, flat_shipping_fee, checkout, page, store>>

\* SpecCart: two customers fill, change and empty their carts
CartProducts == {"p1", "p2"}

CartQuantities == 0..(MaxCartQuantity + 1)

NextCart ==
  \/ \E c \in Callers, product_id \in CartProducts : Cart_AddItem(c, product_id)
  \/ \E c \in Callers, productId \in CartProducts : Cart_RemoveItem(c, productId)
  \/ \E c \in Callers, productId \in CartProducts, quantity \in CartQuantities :
       Cart_UpdateQuantity(c, productId, quantity)
  \/ \E c \in Callers : Cart_ClearCart(c)

SpecCart == Init /\ [][NextCart]_vars

\* C26: every cart item has a quantity of at least 1 and at most its
\* max_quantity
C26_QuantityBounds ==
  \A c \in Callers : \A i \in 1..Len(cart[c]) :
    1 <= cart[c][i].quantity /\ cart[c][i].quantity <= cart[c][i].max_quantity

\* C27: no two items of a cart have the same product_id, and addItem of a
\* product that is in the cart adds the quantity to its line and leaves the
\* other lines, and the number of lines, as they were
C27_OneLinePerProduct ==
  [][\A c \in Callers :
       /\ \A i, j \in 1..Len(cart'[c]) :
            i # j => cart'[c][i].product_id # cart'[c][j].product_id
       /\ \A product_id \in CartProducts :
            (/\ Cart_AddItem(c, product_id)
             /\ \E i \in 1..Len(cart[c]) : cart[c][i].product_id = product_id)
            => /\ Len(cart'[c]) = Len(cart[c])
               /\ \A i \in 1..Len(cart[c]) :
                    IF cart[c][i].product_id = product_id
                      THEN cart'[c][i] = [cart[c][i] EXCEPT !.quantity = @ + 1]
                      ELSE cart'[c][i] = cart[c][i]
    ]_vars

\* C27 witness: a cart holds two lines, and the quantity of the first line
\* was raised by a second addItem
C27_Witness ==
  \E c \in Callers :
    /\ Len(cart[c]) = 2
    /\ cart[c][1].quantity = 2 /\ cart[c][2].quantity = 1

\* ------------------------------------------------------------------------
\* orderStore.updateOrderStatus as the steps of an async function: several
\* calls may be started before the first one returns (OrderTable's bulk
\* buttons call it once per selected order without awaiting)

\* fetchOrderById(orderId): currentOrder becomes the row that was read
FetchOrderById(s, orderId) ==
  /\ orderId \in 1..Len(orders)
  /\ store' = [store EXCEPT
       ![s].currentOrder = [id |-> orderId, status |-> orders[orderId].status],
       ![s].error = NULL]
  /\ store' # store
  /\ UNCHANGED <<dbVars, pc, p_order_items, txProducts, ret, cancel, verify,
                 uploader, pageVars>>

\* set({ isLoading: true, error: null }) and the request is sent
UpdateOrderStatus_Begin(s, r, orderId, status) ==
  /\ store[s].calls[r].pc = "idle"
  /\ orderId \in DOMAIN store[s].orders
  /\ store' = [store EXCEPT
       ![s].isLoading = TRUE,
       ![s].error = NULL,
       ![s].calls[r] = [pc |-> "sent", orderId |-> orderId, status |-> status,
                        settled |-> "none"]]
  /\ UNCHANGED <<dbVars, pc, p_order_items, txProducts, ret, cancel, verify,
                 uploader, pageVars>>

\* the backend runs the UPDATE, or refuses it with an error
UpdateOrderStatus_Update(s, r, ok) ==
  /\ store[s].calls[r].pc = "sent"
  /\ orders' = IF ok THEN SetOrderStatus(orders, store[s].calls[r].orderId,
                                         store[s].calls[r].status)
                     ELSE orders
  /\ store' = [store EXCEPT
       ![s].calls[r].pc = IF ok THEN "updated" ELSE "refused"]
  /\ UNCHANGED <<is_store_open, products, order_items, activity_logs,
                 pc, p_order_items, txProducts, ret, cancel, verify, uploader,
                 pageVars>>

ErrUpdateOrderStatus == "Failed to update order status"
ErrBackend == "backend error"

\* error instanceof Error ? error.message : 'Failed to update order status'
UpdateErrorMessage(instanceOfError) ==
  IF instanceOfError THEN ErrBackend ELSE ErrUpdateOrderStatus

\* the await returns: `if (error) throw error`, the local lists follow, or
\* the catch block keeps the message and rethrows; then the finally block
UpdateOrderStatus_Resume(s, r, instanceOfError) ==
  LET call == store[s].calls[r] IN
  /\ call.pc \in {"updated", "refused"}
  /\ IF call.pc = "updated"
       THEN store' = [store EXCEPT
              ![s].orders = LocalMap(@, call.orderId, call.status),
              ![s].currentOrder = CurrentMap(@, call.orderId, call.status),
              ![s].isLoading = FALSE,
              ![s].calls[r] = [NoCall EXCEPT !.settled = "resolved"]]
       ELSE store' = [store EXCEPT
              ![s].error = UpdateErrorMessage(instanceOfError),
              ![s].isLoading = FALSE,
              ![s].calls[r] = [NoCall EXCEPT !.settled = "rejected"]]
  /\ UNCHANGED <<dbVars, pc, p_order_items, txProducts, ret, cancel, verify,
                 uploader, pageVars>>

\* SpecAsync: a customer places orders, the admin lists them, opens one and
\* starts status updates without waiting for the previous one
AsyncStatuses == {"processing", "cancelled"}

NextAsync ==
  \/ POC_Call("c1", MaxLogs)
  \/ POC_CheckStore("c1", Profiles)
  \/ \E a \in StockArgs : POC_Insert("c1", a)
  \/ FetchOrders("admin")
  \/ \E orderId \in OrderIds(MaxLogs) : FetchOrderById("admin", orderId)
  \/ \E r \in Requests, orderId \in OrderIds(MaxLogs), status \in AsyncStatuses :
       UpdateOrderStatus_Begin("admin", r, orderId, status)
  \/ \E r \in Requests, ok \in BOOLEAN : UpdateOrderStatus_Update("admin", r, ok)
  \/ \E r \in Requests, instanceOfError \in BOOLEAN :
       UpdateOrderStatus_Resume("admin", r, instanceOfError)

SpecAsync == Init /\ [][NextAsync]_vars

\* C28: a store's isLoading is true exactly when one of its calls has been
\* started and has not yet returned
C28_LoadingWhileInFlight ==
  \A s \in Stores :
    store[s].isLoading = (\E r \in Requests : store[s].calls[r].pc # "idle")

\* C29: when a call of updateOrderStatus returns after the UPDATE succeeded,
\* the local order with its id, in orders and in currentOrder, has the new
\* status and nothing else of the two changed, and the call resolves; when
\* the UPDATE failed, orders and currentOrder are as before, error holds a
\* message and the call rejects
C29_LocalFollowsBackend ==
  [][\A s \in Stores, r \in Requests :
       LET call == store[s].calls[r] IN
       (call.pc # "idle" /\ store'[s].calls[r].pc = "idle") =>
         IF call.pc = "updated"
           THEN /\ DOMAIN store'[s].orders = DOMAIN store[s].orders
                /\ \A o \in DOMAIN store[s].orders :
                     store'[s].orders[o] =
                       IF o = call.orderId THEN call.status ELSE store[s].orders[o]
                /\ store'[s].currentOrder =
                     IF store[s].currentOrder.id = call.orderId
                       THEN [id |-> call.orderId, status |-> call.status]
                       ELSE store[s].currentOrder
                /\ store'[s].calls[r].settled = "resolved"
           ELSE /\ store'[s].orders = store[s].orders
                /\ store'[s].currentOrder = store[s].currentOrder
                /\ store'[s].error # NULL
                /\ store'[s].calls[r].settled = "rejected"
    ]_vars

\* C29 witness: with two orders listed and the first one open, an update of
\* the first has returned: it alone has the new status, in the list and in
\* currentOrder; and a refused update has left an error
C29_Witness ==
  /\ DOMAIN store["admin"].orders = {1, 2}
  /\ store["admin"].orders[1] = "processing"
  /\ store["admin"].orders[2] = "pending"
  /\ store["admin"].currentOrder = [id |-> 1, status |-> "processing"]
  /\ store["admin"].calls["r1"].settled = "resolved"
  /\ store["admin"].calls["r2"].settled = "rejected"
  /\ store["admin"].error # NULL

SpecCheckout == Init /\ [][NextCheckout]_vars

====
